---- MODULE Spec2Model ----
(***************************************************************************)
(* Model of SalesOpsMultiAgent.py: the record-hygiene agents, the          *)
(* duplicate search, the insight metrics, the health score and the         *)
(* orchestrator's pipeline.                                                *)
(*                                                                         *)
(* Text is a sequence of one-character strings.  A field value is a        *)
(* tagged value [t, s, n]: t is the Python type ("str", "num", "bool",     *)
(* "none" for None, "nan" for float('nan')), or "absent" when the key is   *)
(* not in the dict.  A record is a function from Fields to such values.    *)
(* Batch indices are 0-based as in the source: record i is records[i+1].   *)
(***************************************************************************)
EXTENDS Integers, Sequences, FiniteSets, TLC

(***************************************************************************)
(* Bounds of the model.                                                    *)
(***************************************************************************)
MaxBatch == 2
MaxDedup == 3
MaxCount == 6

(***************************************************************************)
(* Values.                                                                 *)
(***************************************************************************)
Absent == [t |-> "absent", s |-> <<>>, n |-> 0]
PyNone == [t |-> "none", s |-> <<>>, n |-> 0]
NaN == [t |-> "nan", s |-> <<>>, n |-> 0]
PyTrue == [t |-> "bool", s |-> <<>>, n |-> 1]
PyFalse == [t |-> "bool", s |-> <<>>, n |-> 0]
Txt(s) == [t |-> "str", s |-> s, n |-> 0]
Num(n) == [t |-> "num", s |-> <<>>, n |-> n]

Fields ==
  {"email", "phone", "amount", "first_name", "last_name", "last_activity",
   "close_date", "owner", "stage", "industry", "company_size", "account_id",
   "lead_source", "normalized"}

\* key in record
Has(record, field) == record[field].t # "absent"

\* record.get(field): None when the key is absent
Get(record, field) == IF Has(record, field) THEN record[field] ELSE PyNone

\* record.get(field, ''): the empty string when the key is absent
GetOrEmpty(record, field) == IF Has(record, field) THEN record[field] ELSE Txt(<<>>)

\* Python truthiness: '' , 0, False and None are falsy; nan is truthy
Truthy(v) ==
  CASE v.t = "str" -> v.s # <<>>
    [] v.t = "num" -> v.n # 0
    [] v.t = "bool" -> v.n = 1
    [] v.t = "nan" -> TRUE
    [] OTHER -> FALSE

DigitChars == <<"0", "1", "2", "3", "4", "5", "6", "7", "8", "9">>
IsDigit(c) == \E k \in 1..10 : DigitChars[k] = c
DigitVal(c) == (CHOOSE k \in 1..10 : DigitChars[k] = c) - 1
IsSpace(c) == c \in {" ", "\t", "\n", "\r", "\f"}

RECURSIVE NatToStr(_)
NatToStr(n) ==
  IF n < 10 THEN <<DigitChars[n + 1]>>
  ELSE NatToStr(n \div 10) \o <<DigitChars[(n % 10) + 1]>>

\* str(value)
PyStr(v) ==
  CASE v.t = "str" -> v.s
    [] v.t = "num" -> IF v.n < 0 THEN <<"-">> \o NatToStr(0 - v.n) ELSE NatToStr(v.n)
    [] v.t = "bool" -> IF v.n = 1 THEN <<"T", "r", "u", "e">> ELSE <<"F", "a", "l", "s", "e">>
    [] v.t = "nan" -> <<"n", "a", "n">>
    [] OTHER -> <<"N", "o", "n", "e">>

(***************************************************************************)
(* 1. MissingFieldsAgent                                                   *)
(***************************************************************************)
RequiredFields == <<"email", "lead_source", "close_date">>

\* [field for field in required_fields if not record.get(field)]
Check(record, required_fields) ==
  SelectSeq(required_fields, LAMBDA field : ~Truthy(Get(record, field)))

(***************************************************************************)
(* 2. ValidationAgent                                                      *)
(***************************************************************************)
\* [^@\s]
NotAtOrSpace(c) == c # "@" /\ ~IsSpace(c)

\* re.match(r"[^@\s]+@[^@\s]+\.[^@\s]+", s): anchored at the start only
EmailMatch(s) ==
  \E a \in 2..Len(s) : \E d \in (a + 2)..(Len(s) - 1) :
    /\ s[a] = "@"
    /\ \A k \in 1..(a - 1) : NotAtOrSpace(s[k])
    /\ s[d] = "."
    /\ \A k \in (a + 1)..(d - 1) : NotAtOrSpace(s[k])
    /\ NotAtOrSpace(s[d + 1])

\* re.match(r"^\+?\d{7,15}$", s): $ also matches before one final newline
PhoneMatch(s) ==
  LET first == IF Len(s) >= 1 /\ s[1] = "+" THEN 2 ELSE 1
      last == IF Len(s) >= 1 /\ s[Len(s)] = "\n" THEN Len(s) - 1 ELSE Len(s)
  IN /\ last - first + 1 >= 7
     /\ last - first + 1 <= 15
     /\ \A k \in first..last : IsDigit(s[k])

RECURSIVE Strip(_)
\* s.strip(), which float() applies to a string
Strip(s) ==
  IF s = <<>> THEN s
  ELSE IF IsSpace(s[1]) THEN Strip(Tail(s))
  ELSE IF IsSpace(s[Len(s)]) THEN Strip(SubSeq(s, 1, Len(s) - 1))
  ELSE s

\* float(s) for a decimal literal [+-]digits[.digits] (exponents, inf, nan and
\* underscores are spelled with characters outside the amounts of the model):
\* ok says whether it parses, neg whether the value is < 0
FloatOfText(s0) ==
  LET s == Strip(s0)
      signed == Len(s) >= 1 /\ s[1] \in {"+", "-"}
      body == IF signed THEN Tail(s) ELSE s
      dots == {k \in 1..Len(body) : body[k] = "."}
      digs == {k \in 1..Len(body) : IsDigit(body[k])}
      ok == /\ Cardinality(dots) <= 1
            /\ Cardinality(digs) >= 1
            /\ Cardinality(dots) + Cardinality(digs) = Len(body)
  IN [ok |-> ok,
      neg |-> ok /\ signed /\ s[1] = "-" /\ \E k \in digs : body[k] # "0"]

\* float(value): None raises TypeError, nan compares false with 0
FloatOf(v) ==
  CASE v.t = "str" -> FloatOfText(v.s)
    [] v.t = "num" -> [ok |-> TRUE, neg |-> v.n < 0]
    [] v.t = "bool" -> [ok |-> TRUE, neg |-> FALSE]
    [] v.t = "nan" -> [ok |-> TRUE, neg |-> FALSE]
    [] OTHER -> [ok |-> FALSE, neg |-> FALSE]

Validate(record) ==
  LET e1 == IF Has(record, "email") /\ ~EmailMatch(PyStr(record["email"]))
            THEN <<"Invalid email">> ELSE <<>>
      e2 == IF Has(record, "phone") /\ ~PhoneMatch(PyStr(record["phone"]))
            THEN <<"Invalid phone number">> ELSE <<>>
      e3 == IF ~Has(record, "amount") THEN <<>>
            ELSE IF ~FloatOf(record["amount"]).ok THEN <<"Invalid amount">>
            ELSE IF FloatOf(record["amount"]).neg THEN <<"Negative amount">>
            ELSE <<>>
  IN e1 \o e2 \o e3

(***************************************************************************)
(* 3. DeduplicationAgent                                                   *)
(*                                                                         *)
(* fuzz.ratio is fuzzywuzzy's: 100 for equal strings, 0 when either is     *)
(* empty, else round(100 * 2*M/T), T the total length and M the number of  *)
(* matched characters found by the SequenceMatcher the installation has:   *)
(* python-Levenshtein's (M is the longest common subsequence) or, without  *)
(* that package, difflib's (Ratcliff/Obershelp matching blocks).           *)
(***************************************************************************)
Matchers == {"difflib", "levenshtein"}

Max2(x, y) == IF x >= y THEN x ELSE y

RECURSIVE LcsRow(_, _, _, _, _)
\* one row of the longest-common-subsequence table; cur holds columns 0..Len(cur)-1
LcsRow(a, b, i, prev, cur) ==
  IF Len(cur) = Len(b) + 1 THEN cur
  ELSE LET j == Len(cur)
           v == IF a[i] = b[j] THEN prev[j] + 1 ELSE Max2(prev[j + 1], cur[j])
       IN LcsRow(a, b, i, prev, Append(cur, v))

RECURSIVE LcsRows(_, _, _, _)
LcsRows(a, b, i, prev) ==
  IF i > Len(a) THEN prev[Len(b) + 1]
  ELSE LcsRows(a, b, i + 1, LcsRow(a, b, i, prev, <<0>>))

\* matched characters of Levenshtein.ratio: (lensum - indel distance) / 2
LcsLen(a, b) == LcsRows(a, b, 1, [c \in 1..(Len(b) + 1) |-> 0])

RECURSIVE RunLen(_, _, _, _, _, _)
\* length of the common run that starts at a[i] and b[j], within a[..ahi], b[..bhi]
RunLen(a, b, i, j, ahi, bhi) ==
  IF i > ahi \/ j > bhi \/ a[i] # b[j] THEN 0
  ELSE 1 + RunLen(a, b, i + 1, j + 1, ahi, bhi)

\* difflib find_longest_match: the longest block, earliest in a, then earliest in b
LongestMatch(a, b, alo, ahi, blo, bhi) ==
  LET starts == (alo..ahi) \X (blo..bhi)
      len(p) == RunLen(a, b, p[1], p[2], ahi, bhi)
      best == CHOOSE p \in starts :
                \A q \in starts :
                  \/ len(p) > len(q)
                  \/ len(p) = len(q) /\ p[1] < q[1]
                  \/ len(p) = len(q) /\ p[1] = q[1] /\ p[2] <= q[2]
  IN <<best[1], best[2], len(best)>>

RECURSIVE BlockMatches(_, _, _, _, _, _)
\* difflib get_matching_blocks: the block, then the same to its left and right
BlockMatches(a, b, alo, ahi, blo, bhi) ==
  IF alo > ahi \/ blo > bhi THEN 0
  ELSE LET m == LongestMatch(a, b, alo, ahi, blo, bhi)
       IN IF m[3] = 0 THEN 0
          ELSE m[3] + BlockMatches(a, b, alo, m[1] - 1, blo, m[2] - 1)
                    + BlockMatches(a, b, m[1] + m[3], ahi, m[2] + m[3], bhi)

\* int(round(num / den)): Python 3 rounds a half to the even neighbour
IntRound(num, den) ==
  LET q == num \div den
      r == num % den
  IN IF 2 * r < den THEN q
     ELSE IF 2 * r > den THEN q + 1
     ELSE IF q % 2 = 0 THEN q ELSE q + 1

\* fuzz.ratio(s1, s2)
Ratio(s1, s2, matcher) ==
  IF s1 = s2 THEN 100
  ELSE IF Len(s1) = 0 \/ Len(s2) = 0 THEN 0
  ELSE LET m == IF matcher = "difflib"
                THEN BlockMatches(s1, s2, 1, Len(s1), 1, Len(s2))
                ELSE LcsLen(s1, s2)
       IN IntRound(200 * m, Len(s1) + Len(s2))

DupThreshold == 90

RECURSIVE DedupeLoop_NoSeen(_, _, _, _)
\* find_duplicates without the test (j, i) not in seen
DedupeLoop_NoSeen(n, score, k, st) ==
  IF k >= n * n THEN st.duplicates
  ELSE LET i == k \div n
           j == k % n
           hit == i # j /\ score[<<i, j>>] > DupThreshold
       IN DedupeLoop_NoSeen(n, score, k + 1,
            IF hit THEN [duplicates |-> Append(st.duplicates, <<i, j>>),
                         seen |-> st.seen \cup {<<i, j>>}]
            ELSE st)

RECURSIVE DedupeLoop(_, _, _, _)
\* the two nested loops of find_duplicates over n records, step k visiting
\* i = k div n, j = k mod n; score[<<i, j>>] is what fuzz.ratio returns there
DedupeLoop(n, score, k, st) ==
  IF k >= n * n THEN st.duplicates
  ELSE LET i == k \div n
           j == k % n
           hit == i # j /\ <<j, i>> \notin st.seen /\ score[<<i, j>>] > DupThreshold
       IN DedupeLoop(n, score, k + 1,
            IF hit THEN [duplicates |-> Append(st.duplicates, <<i, j>>),
                         seen |-> st.seen \cup {<<i, j>>}]
            ELSE st)

DedupeWith(n, score) == DedupeLoop(n, score, 0, [duplicates |-> <<>>, seen |-> {}])

\* str(record.get(key_field, ''))
KeyText(record, key_field) == PyStr(GetOrEmpty(record, key_field))

RatioTable(recs, key_field, matcher) ==
  [p \in (0..(Len(recs) - 1)) \X (0..(Len(recs) - 1)) |->
     Ratio(KeyText(recs[p[1] + 1], key_field), KeyText(recs[p[2] + 1], key_field), matcher)]

FindDuplicates(recs, key_field, matcher) ==
  DedupeWith(Len(recs), RatioTable(recs, key_field, matcher))

(***************************************************************************)
(* 4. StalenessAgent                                                       *)
(*                                                                         *)
(* A date is its proleptic Gregorian ordinal (date.toordinal()).  The      *)
(* clock is now_day, the ordinal of today, and now_tod, 0 when the time    *)
(* of day is exactly midnight and 1 otherwise.                             *)
(***************************************************************************)
IsLeap(y) == y % 4 = 0 /\ (y % 100 # 0 \/ y % 400 = 0)

DaysInMonth(y, m) ==
  IF m = 2 THEN (IF IsLeap(y) THEN 29 ELSE 28)
  ELSE IF m \in {4, 6, 9, 11} THEN 30 ELSE 31

RECURSIVE DaysBeforeMonth(_, _)
DaysBeforeMonth(y, m) ==
  IF m = 1 THEN 0 ELSE DaysBeforeMonth(y, m - 1) + DaysInMonth(y, m - 1)

Ordinal(y, m, d) ==
  (y - 1) * 365 + (y - 1) \div 4 - (y - 1) \div 100 + (y - 1) \div 400
    + DaysBeforeMonth(y, m) + d

RECURSIVE DigitsVal(_)
DigitsVal(s) ==
  IF s = <<>> THEN 0
  ELSE 10 * DigitsVal(SubSeq(s, 1, Len(s) - 1)) + DigitVal(s[Len(s)])

\* %m: 1[0-2]|0[1-9]|[1-9]
MonthText(s) ==
  \/ Len(s) = 1 /\ IsDigit(s[1]) /\ s[1] # "0"
  \/ Len(s) = 2 /\ s[1] = "1" /\ s[2] \in {"0", "1", "2"}
  \/ Len(s) = 2 /\ s[1] = "0" /\ IsDigit(s[2]) /\ s[2] # "0"

\* %d: 3[01]|[12]\d|0[1-9]|[1-9]| [1-9]
DayText(s) ==
  \/ Len(s) = 1 /\ IsDigit(s[1]) /\ s[1] # "0"
  \/ Len(s) = 2 /\ s[1] = "3" /\ s[2] \in {"0", "1"}
  \/ Len(s) = 2 /\ s[1] \in {"1", "2"} /\ IsDigit(s[2])
  \/ Len(s) = 2 /\ s[1] \in {"0", " "} /\ IsDigit(s[2]) /\ s[2] # "0"

\* datetime.strptime(s, "%Y-%m-%d"): ok is false where it raises ValueError
\* (no match, unconverted data, year 0, or a day the month does not have)
Strptime(s) ==
  LET dashes == {k \in 6..Len(s) : s[k] = "-"}
      q == CHOOSE k \in dashes : TRUE
      mseg == SubSeq(s, 6, q - 1)
      dseg == SubSeq(s, q + 1, Len(s))
      shaped == /\ Len(s) >= 8
                /\ \A k \in 1..4 : IsDigit(s[k])
                /\ s[5] = "-"
                /\ Cardinality(dashes) = 1
                /\ MonthText(mseg)
                /\ DayText(dseg)
      y == DigitsVal(SubSeq(s, 1, 4))
      m == DigitsVal(mseg)
      d == DigitsVal(IF dseg[1] = " " THEN Tail(dseg) ELSE dseg)
      ok == shaped /\ y >= 1 /\ d <= DaysInMonth(y, m)
  IN [ok |-> ok, ord |-> IF ok THEN Ordinal(y, m, d) ELSE 0]

DefaultDaysThreshold == 30

\* detect_stale: (now - last_date).days is the difference of the ordinals
DetectStale(record, days_threshold, today) ==
  LET last_active == Get(record, "last_activity")
  IN IF last_active.t = "str"
     THEN IF Strptime(last_active.s).ok
          THEN today - Strptime(last_active.s).ord > days_threshold
          ELSE TRUE
     ELSE TRUE

(***************************************************************************)
(* 5. NormalizationAgent                                                   *)
(***************************************************************************)
LowerChars ==
  <<"a", "b", "c", "d", "e", "f", "g", "h", "i", "j", "k", "l", "m",
    "n", "o", "p", "q", "r", "s", "t", "u", "v", "w", "x", "y", "z">>
UpperChars ==
  <<"A", "B", "C", "D", "E", "F", "G", "H", "I", "J", "K", "L", "M",
    "N", "O", "P", "Q", "R", "S", "T", "U", "V", "W", "X", "Y", "Z">>
IsLower(c) == \E k \in 1..26 : LowerChars[k] = c
IsUpper(c) == \E k \in 1..26 : UpperChars[k] = c
ToUpper(c) == IF IsLower(c) THEN UpperChars[CHOOSE k \in 1..26 : LowerChars[k] = c] ELSE c
ToLower(c) == IF IsUpper(c) THEN LowerChars[CHOOSE k \in 1..26 : UpperChars[k] = c] ELSE c

\* str.title(): a letter after a letter is lowered, any other letter is raised
Title(s) ==
  [k \in 1..Len(s) |->
     IF k > 1 /\ (IsLower(s[k - 1]) \/ IsUpper(s[k - 1]))
     THEN ToLower(s[k]) ELSE ToUpper(s[k])]

\* .title() on a truthy value that is not a str raises AttributeError
NormalizeRaises(record) ==
  \E f \in {"first_name", "last_name"} :
    Has(record, f) /\ Truthy(record[f]) /\ record[f].t # "str"

Normalize(record) ==
  [f \in Fields |->
     IF f \in {"first_name", "last_name"} /\ Has(record, f) /\ Truthy(record[f])
     THEN Txt(Title(record[f].s))
     ELSE IF f = "phone" /\ Has(record, f) /\ Truthy(record[f])
     THEN Txt(SelectSeq(PyStr(record[f]), IsDigit))
     ELSE record[f]]

(***************************************************************************)
(* 6. EnrichmentAgent                                                      *)
(***************************************************************************)
Enrich(record, enrichment_data) ==
  [f \in Fields |->
     IF Has(enrichment_data, f) /\ ~Truthy(Get(record, f))
     THEN enrichment_data[f] ELSE record[f]]

(***************************************************************************)
(* 7. InsightsAgent                                                        *)
(*                                                                         *)
(* pd.DataFrame(records) has one column per key that any record holds; a   *)
(* record without the key gets NaN in that column.  df[column] raises      *)
(* KeyError when no record holds the key.                                  *)
(***************************************************************************)
MetricNames ==
  <<"Leads Missing Email", "Opportunities Without Close Date",
    "Duplicate Records Detected", "Opportunities Without Owner",
    "Deals Without Stage", "Stale Opportunities", "Untouched Leads (14+ days)",
    "Missing Industry/Company Size", "Invalid Email or Phone",
    "Contacts Without Accounts", "Past-Due Close Dates", "Normalization Fixes">>

Metrics == {MetricNames[k] : k \in 1..Len(MetricNames)}

Columns(recs) == {f \in Fields : \E k \in 1..Len(recs) : Has(recs[k], f)}

\* isnull() of a cell: None, nan, or the NaN that fills a missing key
IsNull(v) == v.t \in {"absent", "none", "nan"}

CountIf(recs, P(_)) == Cardinality({k \in 1..Len(recs) : P(recs[k])})

\* str(x.get(field, '')) on a row x of the frame
RowText(recs, record, field) ==
  IF field \notin Columns(recs) THEN <<>>
  ELSE IF Has(record, field) THEN PyStr(record[field])
  ELSE PyStr(NaN)

\* the lambda of the two staleness metrics on one cell
StaleCell(v, days, today) ==
  IF v.t = "str" THEN today - Strptime(v.s).ord > days ELSE TRUE

\* the lambda of 'Past-Due Close Dates': strptime(x) < datetime.now()
PastDueCell(v, today, tod) ==
  IF v.t = "str"
  THEN Strptime(v.s).ord < today \/ (Strptime(v.s).ord = today /\ tod > 0)
  ELSE FALSE

\* a str cell of the column on which strptime raises ValueError
Unparsable(recs, field) ==
  \E k \in 1..Len(recs) : recs[k][field].t = "str" /\ ~Strptime(recs[k][field].s).ok

\* the exception generate_insights raises, "" when it returns; the dict
\* literal is evaluated top to bottom, so the first failing entry decides
InsightsError(recs) ==
  IF "email" \notin Columns(recs) THEN "KeyError"
  ELSE IF "close_date" \notin Columns(recs) THEN "KeyError"
  ELSE IF "last_activity" \notin Columns(recs) THEN "KeyError"
  ELSE IF Unparsable(recs, "last_activity") THEN "ValueError"
  ELSE IF Unparsable(recs, "close_date") THEN "ValueError"
  ELSE ""

NormalizedCell(v) == IF v.t \in {"bool", "num"} THEN v.n ELSE 0

RECURSIVE SumNormalized(_, _)
SumNormalized(recs, k) ==
  IF k = 0 THEN 0 ELSE SumNormalized(recs, k - 1) + NormalizedCell(recs[k]["normalized"])

GenerateInsights(recs, dups, today, tod) ==
  LET cols == Columns(recs)
      guarded(field) == IF field \in cols
                        THEN CountIf(recs, LAMBDA r : IsNull(r[field])) ELSE 0
  IN "Leads Missing Email" :> CountIf(recs, LAMBDA r : IsNull(r["email"]))
  @@ "Opportunities Without Close Date" :> CountIf(recs, LAMBDA r : IsNull(r["close_date"]))
  @@ "Duplicate Records Detected" :> Len(dups)
  @@ "Opportunities Without Owner" :> guarded("owner")
  @@ "Deals Without Stage" :> guarded("stage")
  @@ "Stale Opportunities" :>
       CountIf(recs, LAMBDA r : StaleCell(r["last_activity"], 30, today))
  @@ "Untouched Leads (14+ days)" :>
       CountIf(recs, LAMBDA r : StaleCell(r["last_activity"], 14, today))
  @@ "Missing Industry/Company Size" :>
       (IF "industry" \in cols /\ "company_size" \in cols
        THEN CountIf(recs, LAMBDA r : IsNull(r["industry"]) \/ IsNull(r["company_size"]))
        ELSE 0)
  @@ "Invalid Email or Phone" :>
       CountIf(recs, LAMBDA r : \/ ~EmailMatch(RowText(recs, r, "email"))
                                \/ ~PhoneMatch(RowText(recs, r, "phone")))
  @@ "Contacts Without Accounts" :> guarded("account_id")
  @@ "Past-Due Close Dates" :>
       CountIf(recs, LAMBDA r : PastDueCell(r["close_date"], today, tod))
  @@ "Normalization Fixes" :>
       (IF "normalized" \in cols THEN SumNormalized(recs, Len(recs)) ELSE 0)

(***************************************************************************)
(* calculate_health_score.  The penalty is kept in hundredths, exactly.    *)
(* The source adds binary floats, so its penalty can sit a rounding error  *)
(* above or below the decimal value (0.15*5 + 0.25*5 is 2.0 in one order   *)
(* of addition and 2.0000000000000004 in another): err is the sign of that *)
(* error, 0 when the sum is exact.  It decides a comparison only where the *)
(* decimal penalty equals the limit, and a truncation only where the       *)
(* decimal product is a whole number.                                      *)
(***************************************************************************)
Weights ==
  "Leads Missing Email" :> 8
  @@ "Opportunities Without Close Date" :> 12
  @@ "Duplicate Records Detected" :> 15
  @@ "Opportunities Without Owner" :> 25
  @@ "Deals Without Stage" :> 8
  @@ "Stale Opportunities" :> 4
  @@ "Untouched Leads (14+ days)" :> 4
  @@ "Missing Industry/Company Size" :> 2
  @@ "Invalid Email or Phone" :> 6
  @@ "Contacts Without Accounts" :> 6
  @@ "Past-Due Close Dates" :> 8
  @@ "Normalization Fixes" :> 1

MetricCap == 5

FloatErrors == {-1, 0, 1}

Min2(x, y) == IF x <= y THEN x ELSE y

\* insights[key] * weights[key]: the cap of 5 instances left out
Capped_NoCap(ins, key) == ins[key] * Weights[key]

\* min(insights[key], 5) * weights[key], in hundredths
Capped(ins, key) == Min2(ins[key], MetricCap) * Weights[key]

RECURSIVE PenaltySum(_, _)
PenaltySum(ins, k) ==
  IF k = 0 THEN 0
  ELSE PenaltySum(ins, k - 1)
       + (IF ins[MetricNames[k]] > 0 THEN Capped(ins, MetricNames[k]) ELSE 0)

Penalty(ins) == PenaltySum(ins, Len(MetricNames))

\* penalty <= limit
PenaltyLeq(pen, limit, err) == pen < limit \/ (pen = limit /\ err <= 0)

\* int(x) of a non-negative x = num/den - err*epsilon
IntBelow(num, den, err) ==
  IF num % den = 0 /\ num > 0 /\ err > 0 THEN num \div den - 1 ELSE num \div den

\* int(x) of a non-negative x = num/den + err*epsilon
IntAbove(num, den, err) ==
  IF num % den = 0 /\ num > 0 /\ err < 0 THEN num \div den - 1 ELSE num \div den

\* the second band written 85 + int((penalty - 0.5) * 6.67)
CalculateHealthScore_Rising(ins, err) ==
  LET penalty == Penalty(ins)
  IN IF penalty = 0 THEN 100
     ELSE IF PenaltyLeq(penalty, 50, err)
          THEN 95 + IntBelow((50 - penalty) * 10, 100, err)
     ELSE IF PenaltyLeq(penalty, 200, err)
          THEN 85 + IntAbove((penalty - 50) * 667, 10000, err)
     ELSE IF PenaltyLeq(penalty, 500, err)
          THEN 50 + IntBelow((500 - penalty) * 833, 10000, err)
     ELSE Max2(10, 50 - IntAbove((penalty - 500) * 4, 100, err))

\* the first band written 95 + int((0.5 - penalty) * 100)
CalculateHealthScore_Wide(ins, err) ==
  LET penalty == Penalty(ins)
  IN IF penalty = 0 THEN 100
     ELSE IF PenaltyLeq(penalty, 50, err)
          THEN 95 + IntBelow((50 - penalty) * 100, 100, err)
     ELSE IF PenaltyLeq(penalty, 200, err)
          THEN 85 + IntBelow((200 - penalty) * 667, 10000, err)
     ELSE IF PenaltyLeq(penalty, 500, err)
          THEN 50 + IntBelow((500 - penalty) * 833, 10000, err)
     ELSE Max2(10, 50 - IntAbove((penalty - 500) * 4, 100, err))

CalculateHealthScore(ins, err) ==
  LET penalty == Penalty(ins)
  IN IF penalty = 0 THEN 100
     ELSE IF PenaltyLeq(penalty, 50, err)
          THEN 95 + IntBelow((50 - penalty) * 10, 100, err)
     ELSE IF PenaltyLeq(penalty, 200, err)
          THEN 85 + IntBelow((200 - penalty) * 667, 10000, err)
     ELSE IF PenaltyLeq(penalty, 500, err)
          THEN 50 + IntBelow((500 - penalty) * 833, 10000, err)
     ELSE Max2(10, 50 - IntAbove((penalty - 500) * 4, 100, err))

(***************************************************************************)
(* State.                                                                  *)
(***************************************************************************)
VARIABLES
  records,            \* the batch, rewritten in place by run_pipeline
  input,              \* the batch as it was passed in
  enrichment_source,  \* the enrichment mapping, keys outside it absent
  key_field,          \* the key_field argument of find_duplicates
  matcher,            \* the SequenceMatcher behind fuzz.ratio
  score_table,        \* what the similarity function returns, per ordered pair
  now_day,            \* datetime.now(): ordinal of today
  now_tod,            \* datetime.now(): 0 at midnight sharp, else 1
  i,                  \* the loop index of run_pipeline
  pc,                 \* the position in the running function
  alerts,             \* what send_alert has printed so far
  duplicates,         \* the result of find_duplicates
  insights,           \* the result of generate_insights
  fl,                 \* the rounding error of the float penalty
  health_score,       \* the result of calculate_health_score
  raised              \* the exception that ended the run, "" if none

vars ==
  <<records, input, enrichment_source, key_field, matcher, score_table, now_day,
    now_tod, i, pc, alerts, duplicates, insights, fl, health_score, raised>>

NoScore == -1
NoInsights == [m \in Metrics |-> 0]

(***************************************************************************)
(* Inputs of the pipeline.                                                 *)
(***************************************************************************)
Today == Ordinal(2024, 6, 15)

Blank == [f \in Fields |-> Absent]

EmailCom == Txt(<<"a", "@", "x", ".", "c", "o", "m">>)
EmailCo == Txt(<<"a", "@", "x", ".", "c", "o">>)
DateOld == Txt(<<"2", "0", "2", "0", "-", "0", "1", "-", "0", "1">>)
DateThreeWeeks == Txt(<<"2", "0", "2", "4", "-", "0", "5", "-", "2", "5">>)
DateRecent == Txt(<<"2", "0", "2", "4", "-", "0", "6", "-", "0", "1">>)
DateToday == Txt(<<"2", "0", "2", "4", "-", "0", "6", "-", "1", "5">>)
DateFuture == Txt(<<"2", "0", "3", "0", "-", "0", "1", "-", "0", "1">>)
DateJunk == Txt(<<"j", "u", "n", "k">>)
Word == Txt(<<"w", "e", "b">>)

\* a complete, well-formed record
RecClean ==
  [Blank EXCEPT !["email"] = EmailCom, !["phone"] = Txt(<<"+", "1", "2", "3", "4", "5", "6", "7">>),
                !["amount"] = Txt(<<"5">>), !["first_name"] = Txt(<<"b", "O", "B">>),
                !["last_name"] = Txt(<<"o", "'", "n", "e", "i", "l">>),
                !["last_activity"] = DateRecent, !["close_date"] = DateFuture,
                !["owner"] = Word, !["stage"] = Word, !["industry"] = Word,
                !["company_size"] = Num(50), !["account_id"] = Num(7),
                !["lead_source"] = Word]

\* near-duplicate email, long untouched, close date passed, nulls from a CSV,
\* a negative numeric amount
RecOld ==
  [Blank EXCEPT !["email"] = EmailCo, !["last_activity"] = DateOld,
                !["close_date"] = DateOld, !["owner"] = NaN, !["stage"] = PyNone,
                !["industry"] = Word, !["company_size"] = NaN,
                !["account_id"] = NaN, !["lead_source"] = Txt(<<>>),
                !["amount"] = Num(-3)]

\* the record {amount: "-5"}
RecAmount == [Blank EXCEPT !["amount"] = Txt(<<"-", "5">>)]

\* dates that do not parse, a malformed email, a non-numeric amount
RecJunkActivity ==
  [Blank EXCEPT !["email"] = EmailCom, !["last_activity"] = DateJunk,
                !["close_date"] = DateToday, !["lead_source"] = Word]
RecJunkClose ==
  [Blank EXCEPT !["email"] = Txt(<<"a", "x">>), !["last_activity"] = DateThreeWeeks,
                !["close_date"] = DateJunk, !["amount"] = Txt(<<"a", "b", "c">>)]

\* a phone that only normalization makes valid
RecPhone ==
  [Blank EXCEPT !["email"] = EmailCom, !["phone"] = Txt(<<"1", "2", "3", "-", "4", "5", "6", "-", "7", "8", "9", "0">>),
                !["last_activity"] = DateToday, !["close_date"] = DateFuture,
                !["first_name"] = Txt(<<>>), !["lead_source"] = Word]

\* a CSV row with empty cells: pandas reads them as nan
RecNanEmail ==
  [Blank EXCEPT !["email"] = NaN, !["phone"] = NaN, !["last_activity"] = NaN,
                !["close_date"] = NaN, !["lead_source"] = Word]
RecNanName ==
  [Blank EXCEPT !["email"] = EmailCom, !["first_name"] = NaN,
                !["last_activity"] = DateRecent, !["close_date"] = DateFuture,
                !["lead_source"] = Word]

RecordPool ==
  {Blank, RecClean, RecOld, RecAmount, RecJunkActivity, RecJunkClose, RecPhone,
   RecNanEmail, RecNanName}

EnrichmentPool ==
  {Blank,
   [Blank EXCEPT !["lead_source"] = Word, !["owner"] = Word, !["normalized"] = Word],
   [Blank EXCEPT !["email"] = EmailCom, !["close_date"] = DateFuture,
                 !["last_activity"] = DateToday]}

Batches(pool, maxlen) == UNION {[1..n -> pool] : n \in 0..maxlen}

(***************************************************************************)
(* 9. OrchestratorAgent.run_pipeline                                       *)
(***************************************************************************)
Init ==
  /\ input \in Batches(RecordPool, MaxBatch)
  /\ records = input
  /\ enrichment_source \in EnrichmentPool
  /\ key_field = "email"
  /\ matcher \in Matchers
  /\ score_table = <<>>
  /\ now_day = Today
  /\ now_tod \in {0, 1}
  /\ i = 0
  /\ pc = IF Len(input) = 0 THEN "dedupe" ELSE "missing"
  /\ alerts = <<>>
  /\ duplicates = <<>>
  /\ insights = NoInsights
  /\ fl = 0
  /\ health_score = NoScore
  /\ raised = ""

\* 8. AlertAgent.send_alert: the line it prints, kept as (kind, i, detail)
SendAlert(kind, idx, detail) ==
  alerts' = Append(alerts, [kind |-> kind, i |-> idx, detail |-> detail])

\* the loop variable `record` is records[i] as the iteration found it
CheckMissing ==
  /\ pc = "missing"
  /\ LET missing == Check(records[i + 1], RequiredFields)
     IN IF missing # <<>> THEN SendAlert("missing", i, missing)
        ELSE UNCHANGED alerts
  /\ pc' = "validate"
  /\ UNCHANGED <<records, input, enrichment_source, key_field, matcher, score_table,
                 now_day, now_tod, i, duplicates, insights, fl, health_score, raised>>

\* validate run on the normalized record instead of the loop variable
ValidateRecord_OnNormalized ==
  /\ pc = "validate"
  /\ LET validation_errors == Validate(Normalize(records[i + 1]))
     IN IF validation_errors # <<>> THEN SendAlert("validation", i, validation_errors)
        ELSE UNCHANGED alerts
  /\ pc' = "stale"
  /\ UNCHANGED <<records, input, enrichment_source, key_field, matcher, score_table,
                 now_day, now_tod, i, duplicates, insights, fl, health_score, raised>>

ValidateRecord ==
  /\ pc = "validate"
  /\ LET validation_errors == Validate(records[i + 1])
     IN IF validation_errors # <<>> THEN SendAlert("validation", i, validation_errors)
        ELSE UNCHANGED alerts
  /\ pc' = "stale"
  /\ UNCHANGED <<records, input, enrichment_source, key_field, matcher, score_table,
                 now_day, now_tod, i, duplicates, insights, fl, health_score, raised>>

CheckStale ==
  /\ pc = "stale"
  /\ IF DetectStale(records[i + 1], DefaultDaysThreshold, now_day)
     THEN SendAlert("stale", i, <<>>)
     ELSE UNCHANGED alerts
  /\ pc' = "normalize"
  /\ UNCHANGED <<records, input, enrichment_source, key_field, matcher, score_table,
                 now_day, now_tod, i, duplicates, insights, fl, health_score, raised>>

\* line 411 written records[i] = enrich(record, ...): the loop variable, not
\* the normalized records[i]
NormalizeAndEnrich_LoopVariable ==
  /\ pc = "normalize"
  /\ IF NormalizeRaises(records[i + 1])
     THEN /\ raised' = "AttributeError"
          /\ pc' = "raised"
          /\ UNCHANGED <<records, i>>
     ELSE /\ records' = [records EXCEPT ![i + 1] = Enrich(records[i + 1], enrichment_source)]
          /\ i' = i + 1
          /\ pc' = IF i + 1 < Len(records) THEN "missing" ELSE "dedupe"
          /\ UNCHANGED raised
  /\ UNCHANGED <<input, enrichment_source, key_field, matcher, score_table, now_day,
                 now_tod, alerts, duplicates, insights, fl, health_score>>

\* line 410 written to flag only a record that normalize changed
NormalizeAndEnrich_FlagIfChanged ==
  /\ pc = "normalize"
  /\ IF NormalizeRaises(records[i + 1])
     THEN /\ raised' = "AttributeError"
          /\ pc' = "raised"
          /\ UNCHANGED <<records, i>>
     ELSE /\ LET normalized == Normalize(records[i + 1])
                 flagged == IF normalized = records[i + 1]
                            THEN normalized
                            ELSE [normalized EXCEPT !["normalized"] = PyTrue]
             IN records' = [records EXCEPT ![i + 1] = Enrich(flagged, enrichment_source)]
          /\ i' = i + 1
          /\ pc' = IF i + 1 < Len(records) THEN "missing" ELSE "dedupe"
          /\ UNCHANGED raised
  /\ UNCHANGED <<input, enrichment_source, key_field, matcher, score_table, now_day,
                 now_tod, alerts, duplicates, insights, fl, health_score>>

\* lines 409-411 and the step of the for loop
NormalizeAndEnrich ==
  /\ pc = "normalize"
  /\ IF NormalizeRaises(records[i + 1])
     THEN /\ raised' = "AttributeError"
          /\ pc' = "raised"
          /\ UNCHANGED <<records, i>>
     ELSE /\ LET normalized == Normalize(records[i + 1])
                 flagged == [normalized EXCEPT !["normalized"] = PyTrue]
             IN records' = [records EXCEPT ![i + 1] = Enrich(flagged, enrichment_source)]
          /\ i' = i + 1
          /\ pc' = IF i + 1 < Len(records) THEN "missing" ELSE "dedupe"
          /\ UNCHANGED raised
  /\ UNCHANGED <<input, enrichment_source, key_field, matcher, score_table, now_day,
                 now_tod, alerts, duplicates, insights, fl, health_score>>

Dedupe ==
  /\ pc = "dedupe"
  /\ duplicates' = FindDuplicates(records, "email", matcher)
  /\ pc' = "insights"
  /\ UNCHANGED <<records, input, enrichment_source, key_field, matcher, score_table,
                 now_day, now_tod, i, alerts, insights, fl, health_score, raised>>

Insights ==
  /\ pc = "insights"
  /\ IF InsightsError(records) # ""
     THEN /\ raised' = InsightsError(records)
          /\ pc' = "raised"
          /\ UNCHANGED insights
     ELSE /\ insights' = GenerateInsights(records, duplicates, now_day, now_tod)
          /\ pc' = "score"
          /\ UNCHANGED raised
  /\ UNCHANGED <<records, input, enrichment_source, key_field, matcher, score_table,
                 now_day, now_tod, i, alerts, duplicates, fl, health_score>>

Score ==
  /\ pc = "score"
  /\ fl' \in IF Penalty(insights) = 0 THEN {0} ELSE FloatErrors
  /\ health_score' = CalculateHealthScore(insights, fl')
  /\ pc' = "display"
  /\ UNCHANGED <<records, input, enrichment_source, key_field, matcher, score_table,
                 now_day, now_tod, i, alerts, duplicates, insights, raised>>

\* display_dashboard renders (insights, health_score) and changes nothing
Display ==
  /\ pc = "display"
  /\ pc' = "done"
  /\ UNCHANGED <<records, input, enrichment_source, key_field, matcher, score_table,
                 now_day, now_tod, i, alerts, duplicates, insights, fl, health_score,
                 raised>>

Next ==
  \/ CheckMissing
  \/ ValidateRecord
  \/ CheckStale
  \/ NormalizeAndEnrich
  \/ Dedupe
  \/ Insights
  \/ Score
  \/ Display

Spec == Init /\ [][Next]_vars

(***************************************************************************)
(* find_duplicates called on its own, with any similarity function: the    *)
(* batch content does not matter, score_table is what fuzz.ratio returns.  *)
(***************************************************************************)
ScoreLevels == {0, 90, 91}

\* the (i, j) with i != j: the only places where find_duplicates asks
OrderedPairs(n) == {p \in (0..(n - 1)) \X (0..(n - 1)) : p[1] # p[2]}

InitSimilarity ==
  /\ input \in Batches({Blank}, MaxDedup)
  /\ records = input
  /\ enrichment_source = Blank
  /\ key_field = "email"
  /\ matcher = "difflib"
  /\ score_table \in [OrderedPairs(Len(input)) -> ScoreLevels]
  /\ now_day = Today
  /\ now_tod = 0
  /\ i = 0
  /\ pc = "call"
  /\ alerts = <<>>
  /\ duplicates = <<>>
  /\ insights = NoInsights
  /\ fl = 0
  /\ health_score = NoScore
  /\ raised = ""

FindDuplicatesOnTable ==
  /\ pc = "call"
  /\ duplicates' = DedupeWith(Len(records), score_table)
  /\ pc' = "return"
  /\ UNCHANGED <<records, input, enrichment_source, key_field, matcher, score_table,
                 now_day, now_tod, i, alerts, insights, fl, health_score, raised>>

NextSimilarity == FindDuplicatesOnTable

SpecSimilarity == InitSimilarity /\ [][NextSimilarity]_vars

(***************************************************************************)
(* find_duplicates called on its own, on records that hold (or lack) the   *)
(* key, with fuzz.ratio as the similarity.                                 *)
(***************************************************************************)
KeyLongA == Txt(<<"a", "a", "a", "a", "a", "a", "a", "a", "a", "b", "a">>)
KeyLongB == Txt(<<"a", "a", "a", "a", "b", "a", "a", "a", "a", "a", "b">>)
KeyNineA == Txt(<<"a", "a", "a", "a", "a", "a", "a", "a", "a">>)

KeyPool == {Absent, Txt(<<>>), EmailCom, EmailCo, KeyLongA, KeyLongB, KeyNineA}

KeyRecords == {[Blank EXCEPT !["email"] = k] : k \in KeyPool}

InitDedup ==
  /\ input \in Batches(KeyRecords, MaxDedup)
  /\ records = input
  /\ enrichment_source = Blank
  /\ key_field \in {"email", "phone"}
  /\ matcher \in Matchers
  /\ score_table = <<>>
  /\ now_day = Today
  /\ now_tod = 0
  /\ i = 0
  /\ pc = "call"
  /\ alerts = <<>>
  /\ duplicates = <<>>
  /\ insights = NoInsights
  /\ fl = 0
  /\ health_score = NoScore
  /\ raised = ""

FindDuplicatesOnKeys ==
  /\ pc = "call"
  /\ duplicates' = FindDuplicates(records, key_field, matcher)
  /\ pc' = "return"
  /\ UNCHANGED <<records, input, enrichment_source, key_field, matcher, score_table,
                 now_day, now_tod, i, alerts, insights, fl, health_score, raised>>

NextDedup == FindDuplicatesOnKeys

SpecDedup == InitDedup /\ [][NextDedup]_vars

(***************************************************************************)
(* calculate_health_score called on its own, on InsightMaps of counts.     *)
(***************************************************************************)
CountLevels == {0, 1, MaxCount}

\* the metrics that also take the count 1
FineMetrics == {"Normalization Fixes"}

InsightMaps == {m \in [Metrics -> CountLevels] : \A key \in Metrics \ FineMetrics : m[key] # 1}

InitScore ==
  /\ input = <<>>
  /\ records = <<>>
  /\ enrichment_source = Blank
  /\ key_field = "email"
  /\ matcher = "difflib"
  /\ score_table = <<>>
  /\ now_day = Today
  /\ now_tod = 0
  /\ i = 0
  /\ pc = "call"
  /\ alerts = <<>>
  /\ duplicates = <<>>
  /\ insights \in InsightMaps
  /\ fl = 0
  /\ health_score = NoScore
  /\ raised = ""

ScoreCall ==
  /\ pc = "call"
  /\ fl' \in IF Penalty(insights) = 0 THEN {0} ELSE FloatErrors
  /\ health_score' = CalculateHealthScore(insights, fl')
  /\ pc' = "return"
  /\ UNCHANGED <<records, input, enrichment_source, key_field, matcher, score_table,
                 now_day, now_tod, i, alerts, duplicates, insights, raised>>

NextScore == ScoreCall

SpecScore == InitScore /\ [][NextScore]_vars

(***************************************************************************)
(* Claims about find_duplicates, checked under SpecSimilarity.             *)
(***************************************************************************)
Unordered(pair) == {pair[1], pair[2]}

\* C1: find_duplicates never returns both (i, j) and (j, i): every returned
\* pair has i # j and no unordered pair of indices is returned twice,
\* whatever the similarity function returns
C1_NoMirroredPair ==
  pc = "return" =>
    \A a \in 1..Len(duplicates) :
      /\ duplicates[a][1] # duplicates[a][2]
      /\ \A b \in 1..Len(duplicates) :
           a # b => Unordered(duplicates[a]) # Unordered(duplicates[b])

\* C1 happens: the similarity is above the threshold in both orders of a
\* pair, and the pair was returned
C1_Witness ==
  /\ pc = "return"
  /\ \E a \in 1..Len(duplicates) :
       LET pair == duplicates[a]
       IN /\ score_table[pair] > DupThreshold
          /\ score_table[<<pair[2], pair[1]>>] > DupThreshold

(***************************************************************************)
(* Claims about calculate_health_score, checked under SpecScore.           *)
(***************************************************************************)
\* C3: raising the count of one metric, the others fixed, never raises the
\* health score.  The larger map has a penalty of its own, so a float error of
\* its own, unless the cap makes the two sums the same sum.
C3_ScoreMonotone ==
  pc = "return" =>
    \A key \in Metrics : \A c \in (insights[key] + 1)..(MaxCount + 1) :
      LET larger == [insights EXCEPT ![key] = c]
          errors == IF Min2(c, MetricCap) = Min2(insights[key], MetricCap)
                    THEN {fl} ELSE FloatErrors
      IN \A e \in errors : CalculateHealthScore(larger, e) <= health_score

\* C3 happens: one more instance of a metric takes the penalty across the
\* limit 2 and the score drops from the second band into the third
C3_Witness ==
  /\ pc = "return"
  /\ PenaltyLeq(Penalty(insights), 200, fl)
  /\ health_score >= 85
  /\ \E key \in Metrics :
       LET larger == [insights EXCEPT ![key] = insights[key] + 1]
       IN /\ Penalty(larger) > 200
          /\ CalculateHealthScore(larger, 0) < 75

AllZero(ins) == \A key \in Metrics : ins[key] = 0

\* C4: the health score is an integer in [0, 100], never below the floor of
\* 10 and never above 100, and it is exactly 100 when every count is zero
C4_ScoreInRange ==
  pc = "return" =>
    /\ health_score \in 0..100
    /\ health_score >= 10
    /\ health_score <= 100
    /\ (AllZero(insights) => health_score = 100)

\* C4 happens: the all-zero InsightMap was scored, at 100
C4_Witness == pc = "return" /\ AllZero(insights) /\ health_score = 100

Reported(a, b) == \E k \in 1..Len(duplicates) : Unordered(duplicates[k]) = {a, b}

KeyRatio(a, b) ==
  Ratio(KeyText(records[a + 1], key_field), KeyText(records[b + 1], key_field), matcher)

\* C2: find_duplicates reports an unordered pair of distinct indices exactly
\* when the similarity of the two stringified key values (a missing key is the
\* empty string) is above 90; the result is empty for a batch of size 0 or 1,
\* and two records with identical key values always appear as a pair
C2_ReportedIffSimilar ==
  pc = "return" =>
    /\ \A a, b \in 0..(Len(records) - 1) :
         a < b => (Reported(a, b) <=> KeyRatio(a, b) > DupThreshold)
    /\ (Len(records) <= 1 => duplicates = <<>>)
    /\ \A a, b \in 0..(Len(records) - 1) :
         (a < b /\ GetOrEmpty(records[a + 1], key_field) = GetOrEmpty(records[b + 1], key_field))
           => Reported(a, b)

(***************************************************************************)
(* Claims about generate_insights and run_pipeline, checked under Spec.    *)
(***************************************************************************)
Scored == pc \in {"score", "display", "done"}

\* the fields a metric reads, for the metrics that read fields
MetricFields ==
  "Leads Missing Email" :> {"email"}
  @@ "Opportunities Without Close Date" :> {"close_date"}
  @@ "Duplicate Records Detected" :> {}
  @@ "Opportunities Without Owner" :> {"owner"}
  @@ "Deals Without Stage" :> {"stage"}
  @@ "Stale Opportunities" :> {"last_activity"}
  @@ "Untouched Leads (14+ days)" :> {"last_activity"}
  @@ "Missing Industry/Company Size" :> {"industry", "company_size"}
  @@ "Invalid Email or Phone" :> {}
  @@ "Contacts Without Accounts" :> {"account_id"}
  @@ "Past-Due Close Dates" :> {"close_date"}
  @@ "Normalization Fixes" :> {"normalized"}

\* C5: generate_insights never errors on a batch that lacks a field a metric
\* depends on: it returns the 12 metrics, a metric whose field no record has
\* is 0, and the empty batch gives all metrics 0 and the score 100
C5_MissingFieldYieldsZero ==
  /\ raised # "KeyError"
  /\ Scored =>
       /\ DOMAIN insights = Metrics
       /\ \A key \in Metrics :
            (MetricFields[key] \ Columns(records) # {}) => insights[key] = 0
  /\ (pc = "done" /\ input = <<>>) => (AllZero(insights) /\ health_score = 100)

BadDate(record, field) == record[field].t = "str" /\ ~Strptime(record[field].s).ok

\* C6: a date string that does not parse as YYYY-MM-DD never propagates as an
\* error: detect_stale returns true on it, and generate_insights completes,
\* counting the record in 'Stale Opportunities' and 'Untouched Leads (14+
\* days)' and not in 'Past-Due Close Dates'
C6_UnparsableDateRecovered ==
  /\ raised # "ValueError"
  /\ \A k \in 1..Len(records) :
       BadDate(records[k], "last_activity")
         => DetectStale(records[k], DefaultDaysThreshold, now_day)
  /\ Scored =>
       /\ insights["Stale Opportunities"]
            >= CountIf(records, LAMBDA r : BadDate(r, "last_activity"))
       /\ insights["Untouched Leads (14+ days)"]
            >= CountIf(records, LAMBDA r : BadDate(r, "last_activity"))
       /\ insights["Past-Due Close Dates"]
            <= CountIf(records, LAMBDA r : ~BadDate(r, "close_date"))

AlertKinds == <<"missing", "validation", "stale">>
KindRank(kind) == CHOOSE k \in 1..3 : AlertKinds[k] = kind

\* what the detector of the kind reports on a record
Finding(kind, record) ==
  CASE kind = "missing" -> Check(record, RequiredFields)
    [] kind = "validation" -> Validate(record)
    [] OTHER -> IF DetectStale(record, DefaultDaysThreshold, now_day)
                THEN <<"stale">> ELSE <<>>

\* how many detectors have run on record i
DetectorsRun ==
  CASE pc = "missing" -> 0
    [] pc = "validate" -> 1
    [] pc = "stale" -> 2
    [] OTHER -> 3

\* the pipeline is past the detector of the kind on record r
Passed(kind, r) == r < i \/ (r = i /\ KindRank(kind) <= DetectorsRun)

\* C7: alerts come in batch order and, within a record, missing-fields, then
\* validation, then staleness; a record gets at most one alert of each kind,
\* and gets it exactly when the detector reports a finding on the record as
\* it was passed in, before normalization and enrichment (the alert carrying
\* that finding)
C7_AlertOrder ==
  /\ \A a, b \in 1..Len(alerts) :
       a < b => \/ alerts[a].i < alerts[b].i
                \/ /\ alerts[a].i = alerts[b].i
                   /\ KindRank(alerts[a].kind) < KindRank(alerts[b].kind)
  /\ \A r \in 0..(Len(input) - 1) : \A k \in 1..3 :
       LET finding == Finding(AlertKinds[k], input[r + 1])
           sent == {a \in 1..Len(alerts) : alerts[a].i = r /\ alerts[a].kind = AlertKinds[k]}
       IN /\ sent # {} <=> (Passed(AlertKinds[k], r) /\ finding # <<>>)
          /\ \A a \in sent : k < 3 => alerts[a].detail = finding

\* C7 happens: record 0 drew all three alerts, and record 1 an alert after them
C7_Witness ==
  /\ pc = "dedupe"
  /\ Len(alerts) >= 4
  /\ \A a \in 1..3 : alerts[a].i = 0 /\ alerts[a].kind = AlertKinds[a]
  /\ alerts[4].i = 1

\* Enricher(Normalizer(original record)) with its normalized flag true
Processed(record) ==
  [Enrich(Normalize(record), enrichment_source) EXCEPT !["normalized"] = PyTrue]

BatchProcessed ==
  /\ i = Len(input)
  /\ Len(records) = Len(input)
  /\ \A k \in 1..Len(input) : records[k] = Processed(input[k])

\* C8: when find_duplicates is called every record has been processed: the
\* batch has the length and order of the input and position i holds
\* Enricher(Normalizer(input i)) with normalized true; the insight pass runs
\* only after deduplication, on that batch, and the scoring pass after it
C8_DedupeAfterProcessing ==
  /\ [](pc \in {"dedupe", "insights", "score", "display", "done"} => BatchProcessed)
  /\ [][/\ pc' = "insights" =>
             (pc = "dedupe" /\ duplicates' = FindDuplicates(records, "email", matcher))
        /\ pc' = "score" => pc = "insights"
        /\ pc' = "display" => pc = "score"]_vars

\* C8 happens: deduplication is about to run on a batch of two records that
\* normalization and enrichment both changed
C8_Witness ==
  /\ pc = "dedupe"
  /\ Len(input) >= 2
  /\ \E k \in 1..Len(input) :
       /\ Has(input[k], "phone")
       /\ records[k]["phone"] # input[k]["phone"]
  /\ \E k \in 1..Len(input) : ~Has(input[k], "owner") /\ Has(records[k], "owner")

\* C9: 'Invalid Email or Phone' counts exactly the records on which validate
\* reports 'Invalid email' or 'Invalid phone number'; a record with neither
\* an email nor a phone field is not counted
C9_InvalidMetricIsValidator ==
  Scored =>
    insights["Invalid Email or Phone"]
      = CountIf(records,
                LAMBDA r : \E k \in 1..Len(Validate(r)) :
                             Validate(r)[k] \in {"Invalid email", "Invalid phone number"})

\* C11: for a non-empty batch run through run_pipeline, 'Normalization Fixes'
\* equals the batch size, whether or not normalization changed a record, so
\* the penalty is strictly positive and the score handed to the dashboard is
\* strictly below 100
C11_NormalizationFixesIsBatchSize ==
  Len(input) > 0 =>
    /\ Scored => /\ insights["Normalization Fixes"] = Len(input)
                 /\ Penalty(insights) > 0
    /\ pc \in {"display", "done"} => health_score < 100

\* C11 happens: a one-record batch with no other defect reaches the
\* dashboard with 'Normalization Fixes' = 1 as its only metric and scores 99
C11_Witness ==
  /\ pc = "display"
  /\ Len(input) = 1
  /\ \A key \in Metrics \ {"Normalization Fixes"} : insights[key] = 0
  /\ insights["Normalization Fixes"] = 1
  /\ Penalty(insights) = 1
  /\ health_score = 99

====
